---------------------------- MODULE Spec2Model ----------------------------
(***************************************************************************)
(* Inventory allocation: OrderService.placeOrder and the repositories it   *)
(* calls, run by several concurrent callers against one PostgreSQL store.  *)
(* Spec is the concurrent system; SeqSpec is one client calling placeOrder *)
(* again and again, each call after the previous one has returned.         *)
(* FairSpec is Spec with every ready step eventually taken; NotWholeSpec   *)
(* is the sequential client sending quantities that are not whole numbers  *)
(* too; ReadSpec adds the read-only queries of OrderService; PoolSpec      *)
(* bounds the clients of the connection pool below the number of callers;  *)
(* ListSpec lists the orders of a sequential client; DeductSpec calls      *)
(* ProductRepository.deductStock alone; HttpSpec puts                      *)
(* OrderController.placeOrder in front of the service.                     *)
(*                                                                         *)
(* The store is modelled by what the SQL of the repositories does:         *)
(*   - a transaction buffers its writes (the stock it deducted, the order  *)
(*     row it inserted) until COMMIT installs them or ROLLBACK drops them; *)
(*   - SELECT ... FOR UPDATE takes the row lock of the product, or blocks  *)
(*     while another open transaction holds it;                            *)
(*   - under BEGIN ISOLATION LEVEL SERIALIZABLE the snapshot is taken by   *)
(*     the first statement (the SELECT ... FOR UPDATE); a blocked          *)
(*     statement that finds the row updated by a transaction committed     *)
(*     after its snapshot fails ("could not serialize access due to        *)
(*     concurrent update");                                                *)
(*   - any client.query may reject (an injected storage failure); a        *)
(*     statement that rejects has no effect on the store, in particular a  *)
(*     rejected COMMIT has not committed and a rejected ROLLBACK leaves    *)
(*     the transaction open, until the store drops the lost session.       *)
(***************************************************************************)
EXTENDS Integers, Sequences, FiniteSets, TLC

\* ---------------------------------------------------------------- bounds
NumCallers == 2      \* concurrent placeOrder calls
MaxQuantity == 3     \* largest requested quantity
MaxFaults == 2       \* injected rejections (pool.connect, client.query) in one run
MaxCalls == 4        \* calls the sequential client of SeqSpec makes

\* ------------------------------------------------- the provisioned tables
\* The migration inserts five products; the model keeps the one whose stock
\* requests can exhaust, ('Monitor', 5), the fourth row: SERIAL id 4, and a
\* second one for the calls on another product, ('Laptop', 10), SERIAL id 1.
Monitor == 4
InitialStock == 5
Laptop == 1
LaptopStock == 10
\* the migration leaves ids 1..5 in products: 6 names no row
UnknownId == 6

Callers == 1..NumCallers
Products == {Laptop, Monitor}
ProvisionedStock == [p \in Products |-> IF p = Monitor THEN InitialStock ELSE LaptopStock]
Quantities == -1..MaxQuantity
\* the arguments of a call: any quantity of the Monitor, and for the unknown id
\* one quantity that is not positive and one that is
Requests == ({Monitor} \X Quantities) \cup ({UnknownId} \X {0, 1})

\* ------------------------------------------------------------ the values
Null == [null |-> TRUE]
NoOrder == <<>>
NoTxn == [open |-> FALSE, startedAt |-> 0, snapshot |-> Null,
          locked |-> 0, deducted |-> 0, inserted |-> <<>>]
\* the arguments of a call. The quantity is a JavaScript number: `quantity` is
\* its integer part (Math.floor) and `fraction` tells that something is left
\* over (1.5 is quantity 1, fraction TRUE)
NoCall == [productId |-> 0, quantity |-> 0, fraction |-> FALSE]
NoResult == [success |-> FALSE, code |-> "PENDING", statusCode |-> 0,
             availableStock |-> Null, order |-> NoOrder]
NoEffect == [deducted |-> [p \in Products |-> 0], appended |-> <<>>]

VARIABLES
  stock,       \* products.stock, committed: [Products -> Int]
  orders,      \* the orders table, committed rows in commit order
  orderSeq,    \* the SERIAL sequence behind orders.id (never rolled back)
  clock,       \* the number of transactions begun so far: NOW() of the next one
  pc,          \* where each caller is in placeOrder
  call,        \* the arguments of each caller's placeOrder call
  txn,         \* the transaction of each caller's client
  product,     \* the row findByIdWithLock returned to each caller, or Null
  pendingCode, \* the code an early return is about to give
  result,      \* what placeOrder returned to each caller
  released,    \* how many times each caller released its client
  faults,      \* the rejections injected so far into each caller's call
  initStock,   \* history: the stock each product was provisioned with
  effect,      \* history: what each call changed in the committed store
  lockOrder,   \* history: the callers in the order they took a row lock
  log          \* history: the calls the sequential client has completed

vars == <<stock, orders, orderSeq, clock, pc, call, txn, product, pendingCode,
          result, released, faults, initStock, effect, lockOrder, log>>

Init ==
  /\ stock = ProvisionedStock
  /\ initStock = stock
  /\ orders = <<>>
  /\ orderSeq = 1
  /\ clock = 1
  /\ pc = [c \in Callers |-> "idle"]
  /\ call = [c \in Callers |-> NoCall]
  /\ txn = [c \in Callers |-> NoTxn]
  /\ product = [c \in Callers |-> Null]
  /\ pendingCode = [c \in Callers |-> "NONE"]
  /\ result = [c \in Callers |-> NoResult]
  /\ released = [c \in Callers |-> 0]
  /\ faults = [c \in Callers |-> 0]
  /\ effect = [c \in Callers |-> NoEffect]
  /\ lockOrder = <<>>
  /\ log = <<>>


RECURSIVE SumFaults(_)
\* the rejections injected into the calls of the callers in S
SumFaults(S) ==
  IF S = {} THEN 0
  ELSE LET c == CHOOSE d \in S : TRUE IN faults[c] + SumFaults(S \ {c})

\* ------------------------------------------------------- the store's SQL
\* the callers whose open transaction holds the row lock of product p
LockHolders(p) == {c \in Callers : txn[c].open /\ txn[c].locked = p}

\* mutant: the SELECT has lost its FOR UPDATE, nothing makes it wait
NoRowLock(p) == TRUE

\* SELECT ... FOR UPDATE proceeds only while no open transaction holds the row
RowLockFree(p) == LockHolders(p) = {}

\* the products row as transaction c sees it: committed stock less its own write
CurrentStock(c, p) == stock[p] - txn[c].deducted

\* SELECT * FROM products WHERE id = $1 FOR UPDATE; result.rows[0] || null
ProductRow(c, productId) ==
  IF productId \in Products
    THEN [id |-> productId, stock |-> CurrentStock(c, productId)]
    ELSE Null

\* mutant: the WHERE clause asks for more stock than the quantity (stock > $1)
DeductStockQueryStrict(s, quantityToDeduct) ==
  IF s > quantityToDeduct
    THEN [rowCount |-> 1, stock |-> s - quantityToDeduct]
    ELSE [rowCount |-> 0, stock |-> s]

\* mutant: the UPDATE matches the row and leaves its stock as it was
DeductStockQueryDeductsNothing(s, quantityToDeduct) ==
  IF s >= quantityToDeduct
    THEN [rowCount |-> 1, stock |-> s]
    ELSE [rowCount |-> 0, stock |-> s]

\* UPDATE products SET stock = stock - $1 WHERE id = $2 AND stock >= $1
\* on a row holding stock s (CHECK (stock >= 0) of the table follows from
\* the WHERE clause): the rows it updated and the stock it leaves
DeductStockQuery(s, quantityToDeduct) ==
  IF s >= quantityToDeduct
    THEN [rowCount |-> 1, stock |-> s - quantityToDeduct]
    ELSE [rowCount |-> 0, stock |-> s]

\* mutant: the INSERT leaves status to the column default
OrderRowDefaultStatus(c, productId, quantity, status) ==
  [id |-> orderSeq, product_id |-> productId, quantity |-> quantity,
   status |-> "PENDING", created_at |-> txn[c].startedAt]

\* mutant: the INSERT binds quantity and product id the wrong way round
OrderRowSwapped(c, productId, quantity, status) ==
  [id |-> orderSeq, product_id |-> quantity, quantity |-> productId,
   status |-> status, created_at |-> txn[c].startedAt]

\* INSERT INTO orders (product_id, quantity, status, created_at)
\* VALUES ($1, $2, $3, NOW()) RETURNING *; NOW() is the transaction's start
OrderRow(c, productId, quantity, status) ==
  [id |-> orderSeq, product_id |-> productId, quantity |-> quantity,
   status |-> status, created_at |-> txn[c].startedAt]

\* OrderRepository.updateStatus: UPDATE orders SET status = $1 WHERE id = $2.
\* No operation of OrderService calls it.
UpdateStatus(rows, orderId, status) ==
  [i \in 1..Len(rows) |->
     IF rows[i].id = orderId THEN [rows[i] EXCEPT !.status = status] ELSE rows[i]]

\* mutant: the transaction also marks the first stored order as superseded
CommittedOrdersSuperseding(c) ==
  (IF orders = <<>> THEN orders ELSE UpdateStatus(orders, orders[1].id, "SUPERSEDED"))
    \o txn[c].inserted

\* COMMIT installs the transaction's writes in the committed tables
CommittedStock(c) ==
  [p \in Products |-> IF p = txn[c].locked THEN stock[p] - txn[c].deducted
                                           ELSE stock[p]]
CommittedOrders(c) == orders \o txn[c].inserted

\* ----------------------------------------------------------- placeOrder
\* the quantity of a call is a whole number
IsWhole(args) == ~args.fraction

\* the least integer not below the quantity of a call. Against an integer n
\* the number compares as its ceiling does: quantity <= n and n < quantity
\* give what Ceiling <= n and n < Ceiling give
Ceiling(args) == IF args.fraction THEN args.quantity + 1 ELSE args.quantity

\* mutant: the stock check refuses a request for all that is left (<=)
ValidateNotStrict(row, quantity) ==
  IF row = Null THEN "PRODUCT_NOT_FOUND"
  ELSE IF quantity <= 0 THEN "INVALID_QUANTITY"
  ELSE IF row.stock <= quantity THEN "INSUFFICIENT_STOCK"
  ELSE "NONE"

\* mutant: the check of the quantity (lines 54-62) is missing
ValidateIgnoresQuantity(row, quantity) ==
  IF row = Null THEN "PRODUCT_NOT_FOUND"
  ELSE IF row.stock < quantity THEN "INSUFFICIENT_STOCK"
  ELSE "NONE"

\* mutant: the quantity is checked before the product
ValidateQuantityFirst(row, quantity) ==
  IF quantity <= 0 THEN "INVALID_QUANTITY"
  ELSE IF row = Null THEN "PRODUCT_NOT_FOUND"
  ELSE IF row.stock < quantity THEN "INSUFFICIENT_STOCK"
  ELSE "NONE"

\* lines 43-78: the checks between the locked read and the deduction
Validate(row, quantity) ==
  IF row = Null THEN "PRODUCT_NOT_FOUND"
  ELSE IF quantity <= 0 THEN "INVALID_QUANTITY"
  ELSE IF row.stock < quantity THEN "INSUFFICIENT_STOCK"
  ELSE "NONE"

\* the statusCode of each early return and of the catch
StatusCodeOf(code) ==
  CASE code = "PRODUCT_NOT_FOUND" -> 404
    [] code = "INVALID_QUANTITY" -> 400
    [] code = "INSUFFICIENT_STOCK" -> 400
    [] OTHER -> 500

\* mutant: an insufficiency is always reported as "nothing left"
FailureReportsNoStock(code, row) ==
  [success |-> FALSE, code |-> code, statusCode |-> StatusCodeOf(code),
   availableStock |-> IF code = "INSUFFICIENT_STOCK" THEN 0 ELSE Null,
   order |-> NoOrder]

\* the object an unsuccessful placeOrder returns
Failure(code, row) ==
  [success |-> FALSE, code |-> code, statusCode |-> StatusCodeOf(code),
   availableStock |-> IF code = "INSUFFICIENT_STOCK" THEN row.stock ELSE Null,
   order |-> NoOrder]

\* the object a successful placeOrder returns
Success(order) ==
  [success |-> TRUE, code |-> "NONE", statusCode |-> 201,
   availableStock |-> Null,
   order |-> [id |-> order.id, productId |-> order.product_id,
              quantity |-> order.quantity, status |-> order.status,
              createdAt |-> order.created_at]]

\* the calls that hold a client: pool.connect resolved, the call not yet over
HoldsClient(c) ==
  pc[c] \in {"select", "waiting", "deduct", "insert", "commit", "rollback", "catch"}

\* a rejection may still be injected
CanReject == SumFaults(Callers) < MaxFaults

\* history: what this step of caller c changed in the committed tables
Account(c) ==
  effect' = [effect EXCEPT
    ![c] = [deducted |-> [p \in Products |-> @.deducted[p] + stock[p] - stock'[p]],
            appended |-> @.appended \o SubSeq(orders', Len(orders) + 1, Len(orders'))]]

\* mutant: the return happens without the finally block, the client is kept
ReturnWithoutRelease(c, res) ==
  /\ result' = [result EXCEPT ![c] = res]
  /\ released' = released
  /\ product' = [product EXCEPT ![c] = Null]
  /\ pendingCode' = [pendingCode EXCEPT ![c] = "NONE"]
  /\ pc' = [pc EXCEPT ![c] = "returned"]

\* finally { client.release() } and the return
Return(c, res) ==
  /\ result' = [result EXCEPT ![c] = res]
  /\ released' = [released EXCEPT ![c] = @ + 1]
  /\ product' = [product EXCEPT ![c] = Null]
  /\ pendingCode' = [pendingCode EXCEPT ![c] = "NONE"]
  /\ pc' = [pc EXCEPT ![c] = "returned"]

\* lines 33-38: pool.connect() and BEGIN ISOLATION LEVEL SERIALIZABLE.
\* Callers are numbered in the order their calls arrive.
PlaceOrder(c, productId, quantity) ==
  /\ pc[c] = "idle"
  /\ \A d \in Callers : d < c => pc[d] # "idle"
  /\ call' = [call EXCEPT ![c] = [productId |-> productId, quantity |-> quantity,
                                 fraction |-> FALSE]]
  /\ txn' = [txn EXCEPT ![c] = [NoTxn EXCEPT !.open = TRUE, !.startedAt = clock]]
  /\ clock' = clock + 1
  /\ pc' = [pc EXCEPT ![c] = "select"]
  /\ UNCHANGED <<stock, orders, orderSeq, product, pendingCode, result, released,
                 faults, initStock, lockOrder, log>>
  /\ Account(c)

\* line 38 rejects: BEGIN throws inside the try, no transaction is open
PlaceOrderBeginThrows(c, productId, quantity) ==
  /\ pc[c] = "idle"
  /\ \A d \in Callers : d < c => pc[d] # "idle"
  /\ CanReject
  /\ faults' = [faults EXCEPT ![c] = @ + 1]
  /\ call' = [call EXCEPT ![c] = [productId |-> productId, quantity |-> quantity,
                                 fraction |-> FALSE]]
  /\ pc' = [pc EXCEPT ![c] = "catch"]
  /\ UNCHANGED <<stock, orders, orderSeq, clock, txn, product, pendingCode, result,
                 released, initStock, lockOrder, log>>
  /\ Account(c)

\* line 34 rejects: pool.connect() is outside the try, placeOrder itself rejects
PlaceOrderConnectThrows(c, productId, quantity) ==
  /\ pc[c] = "idle"
  /\ \A d \in Callers : d < c => pc[d] # "idle"
  /\ CanReject
  /\ faults' = [faults EXCEPT ![c] = @ + 1]
  /\ call' = [call EXCEPT ![c] = [productId |-> productId, quantity |-> quantity,
                                 fraction |-> FALSE]]
  /\ pc' = [pc EXCEPT ![c] = "thrown"]
  /\ UNCHANGED <<stock, orders, orderSeq, clock, txn, product, pendingCode, result,
                 released, initStock, lockOrder, log>>
  /\ Account(c)

\* lines 33-38 for a quantity that is not a whole number, floor < quantity <
\* floor + 1: placeOrder takes any number
PlaceOrderNotWhole(c, productId, floor) ==
  /\ pc[c] = "idle"
  /\ \A d \in Callers : d < c => pc[d] # "idle"
  /\ call' = [call EXCEPT ![c] = [productId |-> productId, quantity |-> floor,
                                 fraction |-> TRUE]]
  /\ txn' = [txn EXCEPT ![c] = [NoTxn EXCEPT !.open = TRUE, !.startedAt = clock]]
  /\ clock' = clock + 1
  /\ pc' = [pc EXCEPT ![c] = "select"]
  /\ UNCHANGED <<stock, orders, orderSeq, product, pendingCode, result, released,
                 faults, initStock, lockOrder, log>>
  /\ Account(c)

\* lines 41-78 once the SELECT ... FOR UPDATE has returned `row`
AfterSelect(c, row) ==
  /\ product' = [product EXCEPT ![c] = row]
  /\ pendingCode' = [pendingCode EXCEPT ![c] = Validate(row, Ceiling(call[c]))]
  /\ pc' = [pc EXCEPT ![c] =
       IF Validate(row, Ceiling(call[c])) = "NONE" THEN "deduct" ELSE "rollback"]

\* productRepository.findByIdWithLock, the statement returns at once:
\* no such row, or the row with its lock
FindByIdWithLock(c) ==
  /\ pc[c] = "select"
  /\ call[c].productId \in Products => RowLockFree(call[c].productId)
  /\ txn' = [txn EXCEPT ![c].snapshot = ProductRow(c, call[c].productId),
                        ![c].locked = IF call[c].productId \in Products
                                        THEN call[c].productId ELSE 0]
  /\ lockOrder' = IF call[c].productId \in Products
                    THEN Append(lockOrder, c) ELSE lockOrder
  /\ AfterSelect(c, ProductRow(c, call[c].productId))
  /\ UNCHANGED <<stock, orders, orderSeq, clock, call, result, released, faults,
                 initStock, log>>
  /\ Account(c)

\* findByIdWithLock, the row is locked by another transaction: the statement
\* has taken its snapshot and waits
FindByIdWithLockBlocks(c) ==
  /\ pc[c] = "select"
  /\ call[c].productId \in Products
  /\ ~RowLockFree(call[c].productId)
  /\ txn' = [txn EXCEPT ![c].snapshot = ProductRow(c, call[c].productId)]
  /\ pc' = [pc EXCEPT ![c] = "waiting"]
  /\ UNCHANGED <<stock, orders, orderSeq, clock, call, product, pendingCode, result,
                 released, faults, initStock, lockOrder, log>>
  /\ Account(c)

\* findByIdWithLock, the holder has ended without changing the row: the
\* waiting statement takes the lock and returns the row
FindByIdWithLockResumes(c) ==
  /\ pc[c] = "waiting"
  /\ RowLockFree(call[c].productId)
  /\ ProductRow(c, call[c].productId) = txn[c].snapshot
  /\ txn' = [txn EXCEPT ![c].locked = call[c].productId]
  /\ lockOrder' = Append(lockOrder, c)
  /\ AfterSelect(c, ProductRow(c, call[c].productId))
  /\ UNCHANGED <<stock, orders, orderSeq, clock, call, result, released, faults,
                 initStock, log>>
  /\ Account(c)

\* findByIdWithLock, the holder has committed an update of the row after the
\* waiter's snapshot: SERIALIZABLE fails the statement (SQLSTATE 40001)
FindByIdWithLockSerializationFailure(c) ==
  /\ pc[c] = "waiting"
  /\ RowLockFree(call[c].productId)
  /\ ProductRow(c, call[c].productId) # txn[c].snapshot
  /\ pc' = [pc EXCEPT ![c] = "catch"]
  /\ UNCHANGED <<stock, orders, orderSeq, clock, call, txn, product, pendingCode,
                 result, released, faults, initStock, lockOrder, log>>
  /\ Account(c)

\* mutant: deductStock runs its UPDATE on the pool, outside the transaction:
\* the deduction is committed at once
DeductStockOnPool(c) ==
  /\ pc[c] = "deduct"
  /\ LET r == DeductStockQuery(stock[call[c].productId], call[c].quantity)
     IN /\ stock' = [stock EXCEPT ![call[c].productId] = r.stock]
        /\ pc' = [pc EXCEPT ![c] = IF r.rowCount > 0 THEN "insert" ELSE "rollback"]
        /\ pendingCode' = [pendingCode EXCEPT ![c] =
                     IF r.rowCount > 0 THEN "NONE" ELSE "STOCK_DEDUCTION_FAILED"]
  /\ UNCHANGED <<orders, orderSeq, clock, call, txn, product, result, released,
                 faults, initStock, lockOrder, log>>
  /\ Account(c)

\* lines 80-92: productRepository.deductStock and the defensive branch. $1 of
\* the UPDATE is an integer (stock - $1 on an INTEGER column): the store
\* refuses a quantity that is not whole ("invalid input syntax for type
\* integer"), the query rejects and control goes to the catch
DeductStock(c) ==
  /\ pc[c] = "deduct"
  /\ IF IsWhole(call[c])
       THEN LET r == DeductStockQuery(CurrentStock(c, call[c].productId),
                                     call[c].quantity)
            IN /\ txn' = [txn EXCEPT ![c].deducted =
                            @ + CurrentStock(c, call[c].productId) - r.stock]
               /\ pc' = [pc EXCEPT ![c] =
                            IF r.rowCount > 0 THEN "insert" ELSE "rollback"]
               /\ pendingCode' = [pendingCode EXCEPT ![c] =
                            IF r.rowCount > 0 THEN "NONE" ELSE "STOCK_DEDUCTION_FAILED"]
       ELSE /\ pc' = [pc EXCEPT ![c] = "catch"]
            /\ UNCHANGED <<txn, pendingCode>>
  /\ UNCHANGED <<stock, orders, orderSeq, clock, call, product, result, released,
                 faults, initStock, lockOrder, log>>
  /\ Account(c)

\* line 95: orderRepository.create(productId, quantity, 'CONFIRMED', client)
OrderCreate(c) ==
  /\ pc[c] = "insert"
  /\ txn' = [txn EXCEPT ![c].inserted =
       Append(@, OrderRow(c, call[c].productId, call[c].quantity, "CONFIRMED"))]
  /\ orderSeq' = orderSeq + 1
  /\ pc' = [pc EXCEPT ![c] = "commit"]
  /\ UNCHANGED <<stock, orders, clock, call, product, pendingCode, result, released,
                 faults, initStock, lockOrder, log>>
  /\ Account(c)

\* lines 98-111 and 128: COMMIT, the success result, release
Commit(c) ==
  /\ pc[c] = "commit"
  /\ stock' = CommittedStock(c)
  /\ orders' = CommittedOrders(c)
  /\ txn' = [txn EXCEPT ![c] = NoTxn]
  /\ Return(c, Success(txn[c].inserted[1]))
  /\ UNCHANGED <<orderSeq, clock, call, faults, initStock, lockOrder, log>>
  /\ Account(c)

\* mutant: the early return forgets its ROLLBACK
ReturnWithoutRollback(c) ==
  /\ pc[c] = "rollback"
  /\ Return(c, Failure(pendingCode[c], product[c]))
  /\ UNCHANGED <<stock, orders, orderSeq, clock, call, txn, faults, initStock,
                 lockOrder, log>>
  /\ Account(c)

\* lines 44, 55, 70, 85 and 128: ROLLBACK, the typed failure, release
RollbackAndReturn(c) ==
  /\ pc[c] = "rollback"
  /\ txn' = [txn EXCEPT ![c] = NoTxn]
  /\ Return(c, Failure(pendingCode[c], product[c]))
  /\ UNCHANGED <<stock, orders, orderSeq, clock, call, faults, initStock, lockOrder, log>>
  /\ Account(c)

\* any awaited client.query of the try block rejects: control goes to catch
QueryThrows(c) ==
  /\ pc[c] \in {"select", "waiting", "deduct", "insert", "commit", "rollback"}
  /\ CanReject
  /\ faults' = [faults EXCEPT ![c] = @ + 1]
  /\ pc' = [pc EXCEPT ![c] = "catch"]
  /\ UNCHANGED <<stock, orders, orderSeq, clock, call, txn, product, pendingCode,
                 result, released, initStock, lockOrder, log>>
  /\ Account(c)

\* lines 112-128: catch, ROLLBACK succeeds, INTERNAL_ERROR, release
CatchRollback(c) ==
  /\ pc[c] = "catch"
  /\ txn' = [txn EXCEPT ![c] = NoTxn]
  /\ Return(c, Failure("INTERNAL_ERROR", product[c]))
  /\ UNCHANGED <<stock, orders, orderSeq, clock, call, faults, initStock, lockOrder, log>>
  /\ Account(c)

\* lines 114-128: the ROLLBACK of the catch rejects too; the error is logged
\* and swallowed, the client is released with its transaction still open
CatchRollbackThrows(c) ==
  /\ pc[c] = "catch"
  /\ CanReject
  /\ faults' = [faults EXCEPT ![c] = @ + 1]
  /\ Return(c, Failure("INTERNAL_ERROR", product[c]))
  /\ UNCHANGED <<stock, orders, orderSeq, clock, call, txn, initStock, lockOrder, log>>
  /\ Account(c)

\* the store ends a transaction whose ROLLBACK never reached it: the session
\* of the released client is gone, its writes are dropped, its lock is freed
SessionLost(c) ==
  /\ pc[c] = "returned"
  /\ txn[c].open
  /\ txn' = [txn EXCEPT ![c] = NoTxn]
  /\ UNCHANGED <<stock, orders, orderSeq, clock, pc, call, product, pendingCode,
                 result, released, faults, initStock, lockOrder, log>>
  /\ Account(c)

Step(c) ==
  \/ \E r \in Requests : PlaceOrder(c, r[1], r[2])
  \/ \E r \in Requests : PlaceOrderBeginThrows(c, r[1], r[2])
  \/ \E r \in Requests : PlaceOrderConnectThrows(c, r[1], r[2])
  \/ FindByIdWithLock(c)
  \/ FindByIdWithLockBlocks(c)
  \/ FindByIdWithLockResumes(c)
  \/ FindByIdWithLockSerializationFailure(c)
  \/ DeductStock(c)
  \/ OrderCreate(c)
  \/ Commit(c)
  \/ RollbackAndReturn(c)
  \/ QueryThrows(c)
  \/ CatchRollback(c)
  \/ CatchRollbackThrows(c)
  \/ SessionLost(c)

Next == \E c \in Callers : Step(c)

Spec == Init /\ [][Next]_vars

\* the event loop runs every continuation that is ready and the store answers
\* every statement it was sent: no call that can take a step waits for ever
FairSpec == Spec /\ \A c \in Callers : WF_vars(Step(c))

\* ------------------------------------------------- the sequential client
\* what the client keeps of a completed call
LogEntry(c) ==
  [productId |-> call[c].productId, quantity |-> call[c].quantity,
   fraction |-> call[c].fraction,
   success |-> result[c].success,
   code |-> result[c].code,
   availableStock |-> result[c].availableStock,
   stockAfter |-> stock]

\* the sequential client notes the outcome of its call and is ready to call again
NextCall(c) ==
  /\ pc[c] = "returned"
  /\ log' = Append(log, LogEntry(c))
  /\ pc' = [pc EXCEPT ![c] = "idle"]
  /\ call' = [call EXCEPT ![c] = NoCall]
  /\ result' = [result EXCEPT ![c] = NoResult]
  /\ released' = [released EXCEPT ![c] = 0]
  /\ effect' = [effect EXCEPT ![c] = NoEffect]
  /\ UNCHANGED <<stock, orders, orderSeq, clock, txn, product, pendingCode, faults,
                 initStock, lockOrder>>

\* the store of SeqSpec does not fail: no rejection is injected, and with one
\* call at a time no statement waits for a lock
SeqNext ==
  \/ /\ Len(log) < MaxCalls
     /\ \E r \in Requests : PlaceOrder(1, r[1], r[2])
  \/ FindByIdWithLock(1)
  \/ DeductStock(1)
  \/ OrderCreate(1)
  \/ Commit(1)
  \/ RollbackAndReturn(1)
  \/ NextCall(1)

SeqSpec == Init /\ [][SeqNext]_vars

\* the sequential client again, sending whole quantities and quantities that
\* are not whole (0.5, 1.5, ...); the store does not fail
NotWholeNext ==
  \/ /\ Len(log) < MaxCalls
     /\ \E r \in Requests : PlaceOrder(1, r[1], r[2])
  \/ /\ Len(log) < MaxCalls
     /\ \E floor \in 0..MaxQuantity - 1 : PlaceOrderNotWhole(1, Monitor, floor)
  \/ FindByIdWithLock(1)
  \/ DeductStock(1)
  \/ OrderCreate(1)
  \/ Commit(1)
  \/ RollbackAndReturn(1)
  \/ CatchRollback(1)
  \/ NextCall(1)

NotWholeSpec == Init /\ [][NotWholeNext]_vars

\* ------------------------------------------------ the read-only queries
\* products.name of the two provisioned rows the model keeps
ProductName(p) == IF p = Monitor THEN "Monitor" ELSE "Laptop"

\* o JOIN products p ON o.product_id = p.id, with p.name as product_name
JoinProduct(o) ==
  [id |-> o.id, product_id |-> o.product_id, quantity |-> o.quantity,
   status |-> o.status, created_at |-> o.created_at,
   product_name |-> ProductName(o.product_id)]

\* mutant: the listing is ordered by created_at without DESC, oldest first
FindAllOrdersAscending ==
  LET rows == {JoinProduct(orders[i]) : i \in 1..Len(orders)}
  IN [i \in 1..Len(orders) |->
        CHOOSE r \in rows :
          Cardinality({s \in rows : s.created_at < r.created_at}) = i - 1]

\* SELECT ... FROM orders o JOIN products p ... ORDER BY o.created_at DESC
\* (created_at differs from row to row: one order per transaction)
FindAllOrders ==
  LET rows == {JoinProduct(orders[i]) : i \in 1..Len(orders)}
  IN [i \in 1..Len(orders) |->
        CHOOSE r \in rows :
          Cardinality({s \in rows : s.created_at > r.created_at}) = i - 1]

\* mutant: the WHERE clause names the wrong column (product_id = $1)
FindOrderByProductId(orderId) ==
  IF \E i \in 1..Len(orders) : orders[i].product_id = orderId
    THEN orders[CHOOSE i \in 1..Len(orders) : orders[i].product_id = orderId]
    ELSE Null

\* SELECT * FROM orders WHERE id = $1; result.rows[0] || null
FindOrderById(orderId) ==
  IF \E i \in 1..Len(orders) : orders[i].id = orderId
    THEN orders[CHOOSE i \in 1..Len(orders) : orders[i].id = orderId]
    ELSE Null

\* a query answered to caller c: its result, nothing else
Answer(c, res) ==
  /\ pc[c] = "idle"
  /\ result' = [result EXCEPT ![c] = res]
  /\ pc' = [pc EXCEPT ![c] = "queried"]
  /\ UNCHANGED <<stock, orders, orderSeq, clock, call, txn, product, pendingCode,
                 released, initStock, lockOrder, log>>
  /\ Account(c)

\* mutant: getProduct reads through findByIdWithLock: it needs the row lock
GetProductForUpdate(c, productId) ==
  /\ productId \in Products => RowLockFree(productId)
  /\ faults' = faults
  /\ Answer(c, IF productId \in Products
                 THEN [query |-> "getProduct", success |-> TRUE, statusCode |-> 200,
                       product |-> [id |-> productId, stock |-> stock[productId]]]
                 ELSE [query |-> "getProduct", success |-> FALSE, statusCode |-> 404,
                       product |-> Null])

\* getProduct: productRepository.findById on the pool, a plain SELECT of the
\* committed row
GetProduct(c, productId) ==
  /\ faults' = faults
  /\ Answer(c, IF productId \in Products
                 THEN [query |-> "getProduct", success |-> TRUE, statusCode |-> 200,
                       product |-> [id |-> productId, stock |-> stock[productId]]]
                 ELSE [query |-> "getProduct", success |-> FALSE, statusCode |-> 404,
                       product |-> Null])

\* mutant: the SELECT of getAllProducts sees the writes of open transactions
GetAllProductsDirty(c) ==
  /\ faults' = faults
  /\ Answer(c, [query |-> "getAllProducts", success |-> TRUE, statusCode |-> 200,
                products |-> [p \in Products |->
                   IF LockHolders(p) = {} THEN stock[p]
                   ELSE stock[p] - txn[CHOOSE d \in LockHolders(p) : TRUE].deducted],
                count |-> Cardinality(Products)])

\* getAllProducts: SELECT * FROM products ORDER BY id
GetAllProducts(c) ==
  /\ faults' = faults
  /\ Answer(c, [query |-> "getAllProducts", success |-> TRUE, statusCode |-> 200,
                products |-> stock, count |-> Cardinality(Products)])

\* getOrder: orderRepository.findById on the pool
GetOrder(c, orderId) ==
  /\ faults' = faults
  /\ Answer(c, [query |-> "getOrder", success |-> FindOrderById(orderId) # Null,
                statusCode |-> IF FindOrderById(orderId) # Null THEN 200 ELSE 404,
                order |-> FindOrderById(orderId)])

\* getAllOrders: orderRepository.findAll on the pool
GetAllOrders(c) ==
  /\ faults' = faults
  /\ Answer(c, [query |-> "getAllOrders", success |-> TRUE, statusCode |-> 200,
                orders |-> FindAllOrders, count |-> Len(orders)])

\* the SELECT of a read-only query rejects: its catch returns status 500
ReadQueryThrows(c) ==
  /\ CanReject
  /\ faults' = [faults EXCEPT ![c] = @ + 1]
  /\ Answer(c, [query |-> "rejected", success |-> FALSE, statusCode |-> 500])

\* placeOrder calls that meet no storage failure, and the read-only queries
ReadNext ==
  \E c \in Callers :
    \/ \E r \in Requests : PlaceOrder(c, r[1], r[2])
    \/ FindByIdWithLock(c)
    \/ FindByIdWithLockBlocks(c)
    \/ FindByIdWithLockResumes(c)
    \/ FindByIdWithLockSerializationFailure(c)
    \/ DeductStock(c)
    \/ OrderCreate(c)
    \/ Commit(c)
    \/ RollbackAndReturn(c)
    \/ CatchRollback(c)
    \/ \E id \in Products \cup {UnknownId} : GetProduct(c, id)
    \/ GetAllProducts(c)
    \/ \E id \in 1..orderSeq : GetOrder(c, id)
    \/ GetAllOrders(c)
    \/ ReadQueryThrows(c)

ReadSpec == Init /\ [][ReadNext]_vars

\* ------------------------------------------------- the pool of clients
\* new Pool({..., connectionTimeoutMillis: 5000}) sets no max, so pg keeps its
\* default of 10 clients; the model scales the pool down to one client, which
\* keeps what matters here: there can be more calls than clients.
PoolSize == 1

\* the clients checked out of the pool
ClientsInUse == Cardinality({c \in Callers : HoldsClient(c)})

\* the calls PoolSpec makes: those of Spec, and one on the other product
PoolRequests == Requests \cup {<<Laptop, 1>>}

\* line 34 with a free client in the pool: pool.connect() resolves at once
PlaceOrderPooled(c, productId, quantity) ==
  /\ ClientsInUse < PoolSize
  /\ PlaceOrder(c, productId, quantity)

\* line 34 with every client checked out: pool.connect() queues the call
PlaceOrderQueued(c, productId, quantity) ==
  /\ pc[c] = "idle"
  /\ \A d \in Callers : d < c => pc[d] # "idle"
  /\ ClientsInUse >= PoolSize
  /\ call' = [call EXCEPT ![c] = [productId |-> productId, quantity |-> quantity,
                                 fraction |-> FALSE]]
  /\ pc' = [pc EXCEPT ![c] = "connecting"]
  /\ UNCHANGED <<stock, orders, orderSeq, clock, txn, product, pendingCode, result,
                 released, faults, initStock, lockOrder, log>>
  /\ Account(c)

\* a client was released to the queued call: pool.connect() resolves, line 38
PoolConnectResolves(c) ==
  /\ pc[c] = "connecting"
  /\ ClientsInUse < PoolSize
  /\ txn' = [txn EXCEPT ![c] = [NoTxn EXCEPT !.open = TRUE, !.startedAt = clock]]
  /\ clock' = clock + 1
  /\ pc' = [pc EXCEPT ![c] = "select"]
  /\ UNCHANGED <<stock, orders, orderSeq, call, product, pendingCode, result,
                 released, faults, initStock, lockOrder, log>>
  /\ Account(c)

\* no client was released within connectionTimeoutMillis: pool.connect()
\* rejects, outside the try of placeOrder
PoolConnectTimesOut(c) ==
  /\ pc[c] = "connecting"
  /\ ClientsInUse >= PoolSize
  /\ pc' = [pc EXCEPT ![c] = "thrown"]
  /\ UNCHANGED <<stock, orders, orderSeq, clock, call, txn, product, pendingCode,
                 result, released, faults, initStock, lockOrder, log>>
  /\ Account(c)

\* the calls of PoolSpec meet no storage failure; with one client in the pool
\* no two transactions are open at once, so no statement waits for a row lock
PoolNext ==
  \E c \in Callers :
    \/ \E r \in PoolRequests : PlaceOrderPooled(c, r[1], r[2])
    \/ \E r \in PoolRequests : PlaceOrderQueued(c, r[1], r[2])
    \/ PoolConnectResolves(c)
    \/ PoolConnectTimesOut(c)
    \/ FindByIdWithLock(c)
    \/ DeductStock(c)
    \/ OrderCreate(c)
    \/ Commit(c)
    \/ RollbackAndReturn(c)

PoolSpec == Init /\ [][PoolNext]_vars

\* ------------------------------------------------ listing the orders
\* one client calls placeOrder again and again, on either product, while the
\* orders are listed by getAllOrders; the store does not fail. The calls: one
\* unit of either product, and one that is refused
ListRequests == {<<Monitor, 1>>, <<Monitor, 0>>, <<Laptop, 1>>}

ListNext ==
  \/ /\ Len(log) < MaxCalls
     /\ \E r \in ListRequests : PlaceOrder(1, r[1], r[2])
  \/ FindByIdWithLock(1)
  \/ DeductStock(1)
  \/ OrderCreate(1)
  \/ Commit(1)
  \/ RollbackAndReturn(1)
  \/ NextCall(1)
  \/ \E c \in Callers : GetAllOrders(c)

ListSpec == Init /\ [][ListNext]_vars

\* ------------------------------------- ProductRepository.deductStock alone
\* mutant: the WHERE clause has lost id = $2: every row with enough stock
\* is updated
DeductStockRowsOfAnyProduct(rows, productId, quantityToDeduct) ==
  [rowCount |-> Cardinality({p \in DOMAIN rows : rows[p] >= quantityToDeduct}),
   rows |-> [p \in DOMAIN rows |-> DeductStockQuery(rows[p], quantityToDeduct).stock]]

\* UPDATE products SET stock = stock - $1 WHERE id = $2 AND stock >= $1 on the
\* products table: the rows it updated and the table it leaves
DeductStockRows(rows, productId, quantityToDeduct) ==
  IF productId \in DOMAIN rows
    THEN LET r == DeductStockQuery(rows[productId], quantityToDeduct)
         IN [rowCount |-> r.rowCount, rows |-> [rows EXCEPT ![productId] = r.stock]]
    ELSE [rowCount |-> 0, rows |-> rows]

\* the products table holds any stock a sequence of orders can leave
DeductInit ==
  /\ stock \in [Products -> 0..MaxQuantity + 1]
  /\ initStock = stock
  /\ orders = <<>>
  /\ orderSeq = 1
  /\ clock = 1
  /\ pc = [c \in Callers |-> "idle"]
  /\ call = [c \in Callers |-> NoCall]
  /\ txn = [c \in Callers |-> NoTxn]
  /\ product = [c \in Callers |-> Null]
  /\ pendingCode = [c \in Callers |-> "NONE"]
  /\ result = [c \in Callers |-> NoResult]
  /\ released = [c \in Callers |-> 0]
  /\ faults = [c \in Callers |-> 0]
  /\ effect = [c \in Callers |-> NoEffect]
  /\ lockOrder = <<>>
  /\ log = <<>>

\* deductStock(productId, quantityToDeduct, client) on a client outside any
\* transaction, a whole number to deduct: the UPDATE commits at once, the
\* function returns result.rowCount > 0
DeductStockCall(c, productId, quantityToDeduct) ==
  /\ pc[c] = "idle"
  /\ \A d \in Callers : d < c => pc[d] # "idle"
  /\ call' = [call EXCEPT ![c] = [productId |-> productId,
                                 quantity |-> quantityToDeduct, fraction |-> FALSE]]
  /\ LET r == DeductStockRows(stock, productId, quantityToDeduct)
     IN /\ stock' = r.rows
        /\ result' = [result EXCEPT ![c] =
                        [query |-> "deductStock", returned |-> r.rowCount > 0]]
  /\ pc' = [pc EXCEPT ![c] = "queried"]
  /\ UNCHANGED <<orders, orderSeq, clock, txn, product, pendingCode, released,
                 faults, initStock, lockOrder, log>>
  /\ Account(c)

\* deductStock with a number that is not whole: $1 is an integer parameter,
\* the store refuses the value, client.query rejects and deductStock, which
\* has no try, throws
DeductStockCallNotWhole(c, productId, floor) ==
  /\ pc[c] = "idle"
  /\ \A d \in Callers : d < c => pc[d] # "idle"
  /\ call' = [call EXCEPT ![c] = [productId |-> productId,
                                 quantity |-> floor, fraction |-> TRUE]]
  /\ pc' = [pc EXCEPT ![c] = "thrown"]
  /\ UNCHANGED <<stock, orders, orderSeq, clock, txn, product, pendingCode,
                 result, released, faults, initStock, lockOrder, log>>
  /\ Account(c)

DeductNext ==
  \E c \in Callers, productId \in Products \cup {UnknownId} :
    \/ \E quantityToDeduct \in Quantities :
         DeductStockCall(c, productId, quantityToDeduct)
    \/ \E floor \in 0..MaxQuantity - 1 :
         DeductStockCallNotWhole(c, productId, floor)

DeductSpec == DeductInit /\ [][DeductNext]_vars

\* ----------------------------------------- OrderController.placeOrder
\* a field of the JSON body as JavaScript sees it: its typeof, and for a
\* number its integer part and whether something is left over
Absent == [type |-> "undefined", value |-> 0, fraction |-> FALSE]
Text == [type |-> "string", value |-> 0, fraction |-> FALSE]
Number(n) == [type |-> "number", value |-> n, fraction |-> FALSE]
NotWhole(floor) == [type |-> "number", value |-> floor, fraction |-> TRUE]

\* the bodies POST /api/order receives
Bodies ==
  [productId : {Absent, Text, Number(0), Number(Monitor), Number(UnknownId)},
   quantity : {Absent, Text, NotWhole(1)} \cup {Number(n) : n \in Quantities}]

\* the number a field holds compares as its ceiling does against 0
IsPositive(field) ==
  (IF field.fraction THEN field.value + 1 ELSE field.value) > 0

\* lines 30-52: the code of the 400 the controller answers by itself, or
\* "NONE" when the body passes
ValidateRequest(body) ==
  IF body.productId.type = "undefined" \/ body.quantity.type = "undefined"
    THEN "MISSING_REQUIRED_FIELDS"
  ELSE IF body.productId.type # "number" \/ ~IsPositive(body.productId)
    THEN "INVALID_PRODUCT_ID"
  ELSE IF body.quantity.type # "number" \/ ~IsPositive(body.quantity)
    THEN "INVALID_QUANTITY"
  ELSE "NONE"

\* res.status(...).json(...): the response the caller receives
Response(status, success, code) ==
  [responded |-> TRUE, status |-> status, success |-> success, code |-> code]

\* lines 30-52: the request is answered 400, the service is not called
ControllerRejects(c, body) ==
  /\ pc[c] = "idle"
  /\ \A d \in Callers : d < c => pc[d] # "idle"
  /\ ValidateRequest(body) # "NONE"
  /\ result' = [result EXCEPT ![c] = Response(400, FALSE, ValidateRequest(body))]
  /\ pc' = [pc EXCEPT ![c] = "responded"]
  /\ UNCHANGED <<stock, orders, orderSeq, clock, call, txn, product, pendingCode,
                 released, faults, initStock, lockOrder, log>>
  /\ Account(c)

\* line 55: the body passed, orderService.placeOrder(productId, quantity)
ControllerCallsService(c, body) ==
  /\ ValidateRequest(body) = "NONE"
  /\ IF body.quantity.fraction
       THEN PlaceOrderNotWhole(c, body.productId.value, body.quantity.value)
       ELSE PlaceOrder(c, body.productId.value, body.quantity.value)

\* line 55, pool.connect() rejecting inside the service
ControllerCallsServiceConnectThrows(c, body) ==
  /\ ValidateRequest(body) = "NONE"
  /\ ~body.quantity.fraction
  /\ PlaceOrderConnectThrows(c, body.productId.value, body.quantity.value)

\* lines 58-65: the awaited service call returned, its statusCode is sent
ControllerResponds(c) ==
  /\ pc[c] = "returned"
  /\ result' = [result EXCEPT ![c] =
                  Response(result[c].statusCode, result[c].success, result[c].code)]
  /\ pc' = [pc EXCEPT ![c] = "responded"]
  /\ UNCHANGED <<stock, orders, orderSeq, clock, call, txn, product, pendingCode,
                 released, faults, initStock, lockOrder, log>>
  /\ Account(c)

\* line 55 throws: the promise of the controller rejects. The route handler
\* returns that promise to Express without a catch; whether Express looks at
\* it depends on its version, which the repository does not state. Either
\* nobody does (Express 4): nothing is ever sent for the request
ControllerRejectionUnhandled(c) ==
  /\ pc[c] = "thrown"
  /\ pc' = [pc EXCEPT ![c] = "unanswered"]
  /\ UNCHANGED <<stock, orders, orderSeq, clock, call, txn, product, pendingCode,
                 result, released, faults, initStock, lockOrder, log>>
  /\ Account(c)

\* or the rejection is passed to errorHandler (Express 5), which answers 500
ControllerRejectionToErrorHandler(c) ==
  /\ pc[c] = "thrown"
  /\ result' = [result EXCEPT ![c] = Response(500, FALSE, "NONE")]
  /\ pc' = [pc EXCEPT ![c] = "responded"]
  /\ UNCHANGED <<stock, orders, orderSeq, clock, call, txn, product, pendingCode,
                 released, faults, initStock, lockOrder, log>>
  /\ Account(c)

\* POST /api/order from several clients; of the storage failures only the
\* rejection of pool.connect() is injected
HttpNext ==
  \E c \in Callers :
    \/ \E body \in Bodies : ControllerRejects(c, body)
    \/ \E body \in Bodies : ControllerCallsService(c, body)
    \/ \E body \in Bodies : ControllerCallsServiceConnectThrows(c, body)
    \/ FindByIdWithLock(c)
    \/ FindByIdWithLockBlocks(c)
    \/ FindByIdWithLockResumes(c)
    \/ FindByIdWithLockSerializationFailure(c)
    \/ DeductStock(c)
    \/ OrderCreate(c)
    \/ Commit(c)
    \/ RollbackAndReturn(c)
    \/ CatchRollback(c)
    \/ ControllerResponds(c)
    \/ ControllerRejectionUnhandled(c)
    \/ ControllerRejectionToErrorHandler(c)

HttpSpec == Init /\ [][HttpNext]_vars

\* ============================================================ properties
RECURSIVE SumOver(_, _)
\* the sum of f[x] over the finite set S
SumOver(f, S) ==
  IF S = {} THEN 0
  ELSE LET x == CHOOSE y \in S : TRUE IN f[x] + SumOver(f, S \ {x})

\* the calls that have returned to their caller
Returned == {c \in Callers : pc[c] = "returned"}

\* the calls that returned success: true for product p
Granted(p) == {c \in Returned : result[c].success /\ call[c].productId = p}
GrantedQuantity(p) == SumOver([c \in Callers |-> call[c].quantity], Granted(p))

\* the stored CONFIRMED orders of product p
ConfirmedOrders(p) ==
  {i \in 1..Len(orders) : orders[i].product_id = p /\ orders[i].status = "CONFIRMED"}
ConfirmedQuantity(p) ==
  SumOver([i \in 1..Len(orders) |-> orders[i].quantity], ConfirmedOrders(p))

\* the calls whose transaction is open and holds a row lock
InCriticalSection(c) == txn[c].open /\ txn[c].locked # 0

\* C1: in every reachable state, whatever the interleaving of the calls and
\* whatever rejections were injected, the committed stock of every product is
\* an integer >= 0.
C1_StockNeverNegative == \A p \in Products : stock[p] \in Nat

\* C1 witness: two calls that together ask for more than the product had have
\* returned, one granted and one refused.
C1_Witness ==
  \E c, d \in Returned :
    /\ call[c].productId = call[d].productId
    /\ call[c].productId \in Products
    /\ call[c].quantity + call[d].quantity > initStock[call[c].productId]
    /\ result[c].success
    /\ result[d].code = "INSUFFICIENT_STOCK"

\* C2: for the concurrent calls against one product of initial stock Q, the
\* quantities of the calls that returned success: true sum to at most Q.
C2_NoOverAllocation == \A p \in Products : GrantedQuantity(p) <= initStock[p]

\* C2 witness: two calls on one product were both granted and took the whole
\* initial stock.
C2_Witness ==
  \E p \in Products :
    /\ Cardinality(Granted(p)) = 2
    /\ GrantedQuantity(p) = initStock[p]

\* C3: in every committed state, for every product, stock = initial stock
\* minus the quantities of all CONFIRMED orders stored for it.
C3_Conservation ==
  \A p \in Products : stock[p] = initStock[p] - ConfirmedQuantity(p)

\* C3 witness: an order is stored and another call has deducted inside its
\* still open transaction.
C3_Witness ==
  /\ Len(orders) > 0
  /\ \E c \in Callers : txn[c].open /\ txn[c].deducted > 0

\* C4: no two calls are at once between their completed findByIdWithLock on
\* one product and the end of their transaction; a call past the locked read
\* is the only holder of its product's row lock, and a call still blocked in
\* findByIdWithLock holds none.
C4_MutualExclusion ==
  /\ \A c, d \in Callers :
       (c # d /\ InCriticalSection(c) /\ InCriticalSection(d))
         => txn[c].locked # txn[d].locked
  /\ \A c \in Callers : pc[c] \in {"select", "waiting"} => ~InCriticalSection(c)
  /\ \A c \in Callers :
       (pc[c] \in {"deduct", "insert", "commit"})
         => LockHolders(call[c].productId) = {c}

\* C4 witness: one call holds the row lock while another waits for it.
C4_Witness ==
  \E c, d \in Callers :
    /\ pc[c] = "waiting"
    /\ InCriticalSection(d)
    /\ txn[d].locked = call[c].productId

\* every call that returned success: true
AllGranted == {c \in Returned : result[c].success}

RECURSIVE SerialStock(_, _)
\* the stock of product p after the first i calls of lockOrder, run serially
SerialStock(i, p) ==
  IF i = 0 THEN initStock[p]
  ELSE LET c == lockOrder[i]
           s == SerialStock(i - 1, p)
       IN IF /\ call[c].productId = p
             /\ Validate([id |-> p, stock |-> s], call[c].quantity) = "NONE"
            THEN s - call[c].quantity
            ELSE s

\* where caller c stands in lockOrder (0: it never took the lock)
LockPosition(c) ==
  IF \E i \in 1..Len(lockOrder) : lockOrder[i] = c
    THEN CHOOSE i \in 1..Len(lockOrder) : lockOrder[i] = c
    ELSE 0

\* what the serial run returns to caller c, standing at position i >= 1
SerialResult(c, i) ==
  LET row == [id |-> call[c].productId,
              stock |-> SerialStock(i - 1, call[c].productId)]
      code == Validate(row, call[c].quantity)
  IN [success |-> code = "NONE", code |-> code,
      availableStock |-> IF code = "INSUFFICIENT_STOCK" THEN row.stock ELSE Null]

NoFaults == \A c \in Callers : faults[c] = 0

\* C7: with no storage failure, every call on a product ends with the outcome
\* and leaves the stock that running the same calls one after another, in the
\* order they took the row lock, gives: a call that waited for the lock is
\* decided on the stock the holder left (stock 5, quantities 3 then 3: the
\* second is refused with INSUFFICIENT_STOCK, availableStock 2).
C7_SerialEquivalence ==
  NoFaults =>
    /\ \A c \in Returned :
         call[c].productId \in Products =>
           /\ LockPosition(c) > 0
           /\ result[c].success = SerialResult(c, LockPosition(c)).success
           /\ result[c].code = SerialResult(c, LockPosition(c)).code
           /\ result[c].availableStock
                = SerialResult(c, LockPosition(c)).availableStock
    /\ (\A c \in Callers : pc[c] = "returned") =>
         \A p \in Products : stock[p] = SerialStock(Len(lockOrder), p)

\* the calls the sequential client has completed, as <<productId, quantity>>
LogRequests == [i \in 1..Len(log) |-> <<log[i].productId, log[i].quantity>>]

\* the stock the i-th call of the sequential client found
StockBeforeCall(i) == IF i = 1 THEN initStock ELSE log[i - 1].stockAfter

\* Scenario A: the quantities asked of the Monitor and what each call gives
ScenarioQuantities == <<3, 3, 2, 2>>
ScenarioOutcomes ==
  <<[success |-> TRUE, code |-> "NONE", availableStock |-> Null, stockAfter |-> 2],
    [success |-> FALSE, code |-> "INSUFFICIENT_STOCK", availableStock |-> 2,
     stockAfter |-> 2],
    [success |-> TRUE, code |-> "NONE", availableStock |-> Null, stockAfter |-> 0],
    [success |-> FALSE, code |-> "INSUFFICIENT_STOCK", availableStock |-> 0,
     stockAfter |-> 0]>>

\* C8: from stock 5, the sequential calls placeOrder(r,3), placeOrder(r,3),
\* placeOrder(r,2), placeOrder(r,2) give success (stock 2), INSUFFICIENT_STOCK
\* with availableStock 2 (stock 2), success (stock 0), INSUFFICIENT_STOCK with
\* availableStock 0.
C8_SequentialScenario ==
  initStock[Monitor] = 5 =>
    \A n \in 1..Len(ScenarioQuantities) :
      (/\ n <= Len(log)
       /\ \A i \in 1..n : LogRequests[i] = <<Monitor, ScenarioQuantities[i]>>)
        => /\ log[n].success = ScenarioOutcomes[n].success
           /\ log[n].code = ScenarioOutcomes[n].code
           /\ log[n].availableStock = ScenarioOutcomes[n].availableStock
           /\ log[n].stockAfter[Monitor] = ScenarioOutcomes[n].stockAfter

\* C8 witness: the four calls of the scenario have been made, in its order.
C8_Witness ==
  /\ initStock[Monitor] = 5
  /\ LogRequests = [i \in 1..4 |-> <<Monitor, ScenarioQuantities[i]>>]

\* C9: a request for exactly the stock s >= 1 a product has succeeds and
\* leaves stock 0 (the rejecting comparison is strict), and a call for 1 unit
\* right after it fails with INSUFFICIENT_STOCK and availableStock 0.
C9_Boundary ==
  \A i \in 1..Len(log) :
    LET p == log[i].productId IN
    (/\ p \in Products
     /\ log[i].quantity >= 1
     /\ log[i].quantity = StockBeforeCall(i)[p])
      => /\ log[i].success
         /\ log[i].stockAfter[p] = 0
         /\ (/\ i < Len(log)
             /\ LogRequests[i + 1] = <<p, 1>>)
              => /\ ~log[i + 1].success
                 /\ log[i + 1].code = "INSUFFICIENT_STOCK"
                 /\ log[i + 1].availableStock = 0
                 /\ log[i + 1].stockAfter[p] = 0

\* C9 witness: a call asked for all that was left and the next asked for 1.
C9_Witness ==
  \E i \in 1..Len(log) :
    /\ log[i].productId \in Products
    /\ log[i].quantity >= 1
    /\ log[i].quantity = StockBeforeCall(i)[log[i].productId]
    /\ i < Len(log)
    /\ LogRequests[i + 1] = <<log[i].productId, 1>>

\* C10: placeOrder(unknownId, q) with q > 0 changes no stock, appends no order
\* that names unknownId, and releases its client once; it returns
\* PRODUCT_NOT_FOUND with status 404, its transaction ended, unless a
\* statement of the call was rejected.
C10_UnknownProduct ==
  \A c \in Returned :
    (call[c].productId \notin Products /\ call[c].quantity > 0) =>
      /\ effect[c] = NoEffect
      /\ \A i \in 1..Len(orders) : orders[i].product_id # call[c].productId
      /\ released[c] = 1
      /\ result[c].code \in {"PRODUCT_NOT_FOUND", "INTERNAL_ERROR"}
      /\ faults[c] = 0 => result[c].code = "PRODUCT_NOT_FOUND"
      /\ result[c].code = "PRODUCT_NOT_FOUND" =>
           /\ ~result[c].success
           /\ result[c].statusCode = 404
           /\ result[c].availableStock = Null
           /\ ~txn[c].open

\* C10 witness: a call for the unknown id has returned PRODUCT_NOT_FOUND while
\* another call holds the lock of a product.
C10_Witness ==
  \E c \in Returned, d \in Callers :
    /\ call[c].productId \notin Products
    /\ call[c].quantity > 0
    /\ result[c].code = "PRODUCT_NOT_FOUND"
    /\ InCriticalSection(d)

\* C11: for an existing product r, placeOrder(r, 0) and placeOrder(r, q) with
\* q < 0 return INVALID_QUANTITY (status 400), whatever other calls are in
\* flight, and change neither the stock of r nor the stored orders; only a
\* rejection injected into one of the call's own statements may turn the
\* outcome into INTERNAL_ERROR.
C11_InvalidQuantity ==
  \A c \in Returned :
    (call[c].productId \in Products /\ call[c].quantity <= 0) =>
      /\ effect[c] = NoEffect
      /\ faults[c] = 0 =>
           /\ ~result[c].success
           /\ result[c].code = "INVALID_QUANTITY"
           /\ result[c].statusCode = 400


\* a call that holds the row lock and has failed the stock check of line 69
DecidedInsufficient(c) ==
  /\ pc[c] = "rollback"
  /\ pendingCode[c] = "INSUFFICIENT_STOCK"

\* C12: a call decided while it holds the lock on a stock s with q > s returns
\* INSUFFICIENT_STOCK (status 400) with availableStock = s, the committed
\* stock while the lock is held, unless its ROLLBACK is rejected; it changes
\* neither stock nor orders; no other outcome carries an availableStock.
C12_InsufficientStock ==
  /\ [](\A c \in Callers :
          /\ (pc[c] \in {"deduct", "rollback"} /\ call[c].productId \in Products) =>
               /\ product[c].stock = stock[call[c].productId]
               /\ DecidedInsufficient(c) <=>
                    (call[c].quantity > 0 /\ call[c].quantity > product[c].stock)
          /\ pc[c] = "returned" =>
               IF result[c].code = "INSUFFICIENT_STOCK"
                 THEN /\ ~result[c].success
                      /\ result[c].statusCode = 400
                      /\ result[c].availableStock >= 0
                      /\ result[c].availableStock < call[c].quantity
                      /\ effect[c] = NoEffect
                 ELSE result[c].availableStock = Null)
  /\ [][\A c \in Callers :
          /\ (DecidedInsufficient(c) /\ pc'[c] = "returned" /\ faults'[c] = faults[c]) =>
               /\ result'[c].code = "INSUFFICIENT_STOCK"
               /\ result'[c].availableStock = stock[call[c].productId]
               /\ stock' = stock
               /\ orders' = orders
          /\ (pc[c] # "returned" /\ pc'[c] = "returned"
                /\ result'[c].code = "INSUFFICIENT_STOCK") => DecidedInsufficient(c)
      ]_vars

\* C12 witness: after another call was granted part of the stock, a call has
\* returned INSUFFICIENT_STOCK carrying the stock that was left.
C12_Witness ==
  \E c, d \in Returned :
    /\ result[d].success
    /\ result[c].code = "INSUFFICIENT_STOCK"
    /\ result[c].availableStock = stock[call[c].productId]
    /\ result[c].availableStock > 0
    /\ result[c].availableStock < initStock[call[c].productId]


\* the codes of the typed failures placeOrder returns
FailureCodes ==
  {"PRODUCT_NOT_FOUND", "INVALID_QUANTITY", "INSUFFICIENT_STOCK",
   "STOCK_DEDUCTION_FAILED", "INTERNAL_ERROR"}

\* C13: every error inside placeOrder, a rejected pool.connect and a rejected
\* BEGIN included, comes back as a result {success: false, code, ...}:
\* placeOrder never throws, and it begins no second transaction (no retry).
C13_NeverThrows ==
  /\ \A c \in Callers : pc[c] # "thrown"
  /\ \A c \in Returned : ~result[c].success => result[c].code \in FailureCodes
  /\ clock - 1 <= Cardinality({c \in Callers : pc[c] # "idle"})


\* C14: on every exit path of placeOrder after a client was obtained
\* (success, not found, invalid quantity, insufficient stock, a thrown error,
\* a failed rollback) client.release() has been called exactly once, and it
\* is not called before the exit.
C14_ReleaseExactlyOnce ==
  \A c \in Callers :
    /\ pc[c] = "returned" => released[c] = 1
    /\ HoldsClient(c) => released[c] = 0
    /\ pc[c] \in {"idle", "thrown"} => released[c] = 0

\* C14 witness: one call has returned success and another has returned after
\* the ROLLBACK of its catch was rejected, its transaction still open.
C14_Witness ==
  \E c, d \in Returned :
    /\ result[c].success
    /\ result[d].code = "INTERNAL_ERROR"
    /\ txn[d].open
    /\ released[c] = 1
    /\ released[d] = 1


\* the calls that are the only ones made on their product
AloneOnProduct(c) ==
  /\ call[c].productId \in Products
  /\ \A d \in Callers \ {c} : call[d].productId # call[c].productId

\* C15: a call on product p2 is never delayed (queued for a client, blocked on
\* a lock) nor failed because other calls are in flight or waiting on another
\* product p1, however many callers there are for the clients of the pool.
C15_Independence ==
  \A c \in Callers :
    (AloneOnProduct(c) /\ faults[c] = 0) =>
      /\ pc[c] \notin {"connecting", "waiting", "thrown"}
      /\ pc[c] = "returned" => result[c].code # "INTERNAL_ERROR"


\* caller c waits for caller d: c is blocked on the row lock d holds
WaitsFor(c, d) ==
  /\ pc[c] = "waiting"
  /\ d \in LockHolders(call[c].productId)

\* the call of caller c is over: its result returned, its client released,
\* its transaction ended and with it its row lock
Finished(c) ==
  /\ pc[c] = "returned"
  /\ released[c] = 1
  /\ ~txn[c].open

\* C16: a call takes one row lock at most, that of its own product, and holds
\* none while it waits, so no callers wait on each other in a cycle; under
\* fair scheduling every started call eventually returns a result and
\* releases its lock and its client.
C16_DeadlockFreeTermination ==
  /\ [](\A c \in Callers :
          /\ txn[c].locked \in {0, call[c].productId}
          /\ Cardinality({i \in 1..Len(lockOrder) : lockOrder[i] = c}) <= 1
          /\ \A d \in Callers : WaitsFor(c, d) => \A e \in Callers : ~WaitsFor(d, e))
  /\ \A c \in Callers : (pc[c] # "idle") ~> Finished(c)


\* this step answers a read-only query of caller c
IsRead(c) == pc[c] = "idle" /\ pc'[c] = "queried"

C18_LedgerImmutable ==
  [][/\ Len(orders') >= Len(orders)
     /\ \A i \in 1..Len(orders) : orders'[i] = orders[i]]_vars

\* C18 witness: a second order was committed after a first one, which is
\* still stored.
C18_Witness ==
  /\ Len(orders) = 2
  /\ orders[1].id # orders[2].id
  /\ orders[1].status = "CONFIRMED"


\* C19: a quantity that is not an integer (1.5) given to placeOrder is
\* rejected with INVALID_QUANTITY and changes neither stock nor orders.
C19_NonIntegerRejected ==
  \A c \in Returned :
    ~IsWhole(call[c]) =>
      /\ ~result[c].success
      /\ result[c].code = "INVALID_QUANTITY"
      /\ effect[c] = NoEffect


\* C20 as stated: placeOrder rejects a quantity <= 0 with INVALID_QUANTITY
\* before it tries to take the row lock: the outcome is INVALID_QUANTITY
\* whether or not the product exists, and the call never waits for a lock.
C20_QuantityCheckedFirst ==
  \A c \in Callers :
    (pc[c] # "idle" /\ call[c].quantity <= 0) =>
      /\ pc[c] # "waiting"
      /\ LockPosition(c) = 0
      /\ (pc[c] = "returned" /\ faults[c] = 0) => result[c].code = "INVALID_QUANTITY"

\* C20 amended: placeOrder checks the quantity after findByIdWithLock. A call
\* with quantity <= 0 changes nothing; for an id without a row it returns
\* PRODUCT_NOT_FOUND (unless one of its statements was rejected), never
\* INVALID_QUANTITY; INVALID_QUANTITY is returned only to a call with
\* quantity <= 0 on an existing product that has taken the row lock.
C20_QuantityCheckedAfterLock ==
  \A c \in Returned :
    /\ call[c].quantity <= 0 =>
         /\ effect[c] = NoEffect
         /\ ~result[c].success
         /\ call[c].productId \notin Products =>
              /\ result[c].code \in {"PRODUCT_NOT_FOUND", "INTERNAL_ERROR"}
              /\ faults[c] = 0 => result[c].code = "PRODUCT_NOT_FOUND"
         /\ call[c].productId \in Products =>
              result[c].code \in {"INVALID_QUANTITY", "INTERNAL_ERROR"}
    /\ result[c].code = "INVALID_QUANTITY" =>
         /\ call[c].quantity <= 0
         /\ call[c].productId \in Products
         /\ LockPosition(c) > 0

\* C20 witness: placeOrder(unknownId, 0) has returned PRODUCT_NOT_FOUND, and a
\* call with quantity <= 0 on a product has returned INVALID_QUANTITY after
\* taking the row lock.
C20_Witness ==
  \E c, d \in Returned :
    /\ call[c].productId \notin Products
    /\ call[c].quantity <= 0
    /\ result[c].code = "PRODUCT_NOT_FOUND"
    /\ call[d].productId \in Products
    /\ call[d].quantity <= 0
    /\ result[d].code = "INVALID_QUANTITY"
    /\ LockPosition(d) > 0


C22_DeductionNeverFails ==
  NoFaults =>
    \A c \in Callers :
      /\ pendingCode[c] # "STOCK_DEDUCTION_FAILED"
      /\ (pc[c] = "returned" => result[c].code # "STOCK_DEDUCTION_FAILED")
      /\ (pc[c] = "deduct" /\ IsWhole(call[c]) =>
            DeductStockQuery(CurrentStock(c, call[c].productId),
                             call[c].quantity).rowCount = 1)

\* C22 witness: a call that had to wait for the row lock has passed the stock
\* check and deductStock, the other call being over.
C22_Witness ==
  /\ NoFaults
  /\ \E c \in Callers :
       /\ pc[c] = "insert"
       /\ txn[c].deducted > 0
       /\ LockPosition(c) = 2
       /\ \A d \in Callers \ {c} : pc[d] = "returned"

\* C23: with no storage or connectivity failure, a call on an existing product
\* with a quantity > 0 fails only with INSUFFICIENT_STOCK, and only when its
\* quantity exceeds the stock left by the calls that held the row lock before
\* it; so of concurrent requests of one unit each, as many succeed as the
\* stock has units.
C23_NoSpuriousRejection ==
  NoFaults =>
    \A c \in Returned :
      (call[c].productId \in Products /\ call[c].quantity > 0 /\ ~result[c].success) =>
        /\ result[c].code = "INSUFFICIENT_STOCK"
        /\ LockPosition(c) > 0
        /\ call[c].quantity > SerialStock(LockPosition(c) - 1, call[c].productId)

\* the callers a read-only query has answered
Queried(name) == {c \in Callers : pc[c] = "queried" /\ result[c].query = name}

\* the stock of product p once the first k committed orders were deducted
PrefixStock(k, p) ==
  initStock[p] - SumOver([i \in 1..Len(orders) |-> orders[i].quantity],
                         {i \in 1..k : orders[i].product_id = p})

\* C24: what getProduct, getAllProducts and getAllOrders answered is the
\* committed state at one point between two commits: the stock left by the
\* first k committed orders, or exactly the first k committed orders. It is
\* never a stock that a transaction has deducted and not committed, hence
\* never one without its order row, nor one that is rolled back later.
C24_QueriesSeeCommittedUnits ==
  /\ \A c \in Queried("getProduct") :
       result[c].success =>
         \E k \in 0..Len(orders) :
           result[c].product.stock = PrefixStock(k, result[c].product.id)
  /\ \A c \in Queried("getAllProducts") :
       \E k \in 0..Len(orders) :
         \A p \in Products : result[c].products[p] = PrefixStock(k, p)
  /\ \A c \in Queried("getAllOrders") :
       \E k \in 0..Len(orders) :
         /\ result[c].count = k
         /\ {result[c].orders[i].id : i \in 1..Len(result[c].orders)}
              = {orders[i].id : i \in 1..k}

\* C24 witness: getAllProducts has answered a caller that arrived after a
\* placeOrder which has not committed yet: the answer shows the stock before
\* that call, whose deduction and order row are still pending.
C24_Witness ==
  \E c \in Queried("getAllProducts"), d \in Callers :
    /\ d < c
    /\ pc[d] = "commit"
    /\ txn[d].deducted > 0
    /\ txn[d].inserted # <<>>
    /\ result[c].products[Monitor] = initStock[Monitor]

\* a call of deductStock by caller c takes this step
CallsDeductStock(c) == pc[c] = "idle" /\ pc'[c] # "idle"

\* C25: a deductStock(productId, amount) whose UPDATE the store runs returns
\* true and decreases the stock of productId by exactly amount if the product
\* exists and has stock >= amount when the UPDATE runs; otherwise it returns
\* false and changes no stock; it never touches another product. (An UPDATE
\* the store refuses, the amount not being a whole number, changes nothing.)
C25_DeductStockContract ==
  [][\A c \in Callers :
       CallsDeductStock(c) =>
         IF IsWhole(call'[c])
           THEN LET productId == call'[c].productId
                    enough == /\ productId \in Products
                              /\ stock[productId] >= call'[c].quantity
                IN /\ pc'[c] = "queried"
                   /\ result'[c].returned = enough
                   /\ \A p \in Products :
                        stock'[p] = IF p = productId /\ enough
                                      THEN stock[p] - call'[c].quantity
                                      ELSE stock[p]
           ELSE stock' = stock]_vars

\* C25 witness: one call of deductStock has returned true and taken its
\* amount from its product, another has returned false on the same product
\* and taken nothing.
C25_Witness ==
  \E c, d \in Queried("deductStock") :
    /\ result[c].returned
    /\ call[c].quantity > 0
    /\ effect[c].deducted = [p \in Products |->
                               IF p = call[c].productId THEN call[c].quantity ELSE 0]
    /\ ~result[d].returned
    /\ call[d].productId = call[c].productId
    /\ effect[d] = NoEffect

\* the successful placeOrder calls that returned order id i
GrantedWithId(i) == {d \in AllGranted : result[d].order.id = i}

\* C26: the ids returned by distinct successful placeOrder calls differ; a
\* getOrder(i) answered after a placeOrder returned success with order id i
\* succeeds (200) with an order of the same id, product id, quantity and
\* status; getOrder of an id no successful call has returned is not found
\* (404).
C26_LedgerRoundTrip ==
  /\ [](\A c, d \in AllGranted : c # d => result[c].order.id # result[d].order.id)
  /\ [][\A c \in Callers : \A i \in 1..orderSeq :
          GetOrder(c, i) =>
            IF GrantedWithId(i) # {}
              THEN /\ result'[c].success
                   /\ result'[c].statusCode = 200
                   /\ \A d \in GrantedWithId(i) :
                        /\ result'[c].order.id = result[d].order.id
                        /\ result'[c].order.product_id = result[d].order.productId
                        /\ result'[c].order.quantity = result[d].order.quantity
                        /\ result'[c].order.status = result[d].order.status
              ELSE /\ ~result'[c].success
                   /\ result'[c].statusCode = 404]_vars

\* C26 witness: getOrder has found the order a successful placeOrder returned.
C26_Witness ==
  \E c \in Queried("getOrder"), d \in AllGranted :
    /\ result[c].success
    /\ result[c].order.id = result[d].order.id
    /\ result[c].order.quantity = call[d].quantity

\* C27: what getAllOrders returned is the orders committed when it ran (the
\* first k stored rows), each exactly once and with the fields of its row,
\* joined with the name of its product, newest created_at first, and count
\* is the number of orders returned.
C27_GetAllOrders ==
  \A c \in Queried("getAllOrders") :
    LET listed == result[c].orders
    IN /\ result[c].count = Len(listed)
       /\ \E k \in 0..Len(orders) :
            /\ Len(listed) = k
            /\ \A i \in 1..k :
                 Cardinality({j \in 1..k : listed[j] = JoinProduct(orders[i])}) = 1
       /\ \A j \in 1..Len(listed) :
            listed[j].product_name = ProductName(listed[j].product_id)
       /\ \A i, j \in 1..Len(listed) :
            i < j => listed[i].created_at >= listed[j].created_at

\* C27 witness: getAllOrders has listed orders of both products, the newest
\* first, where the table holds them oldest first.
C27_Witness ==
  \E c \in Queried("getAllOrders") :
    /\ result[c].count >= 2
    /\ result[c].orders[1].id = orders[result[c].count].id
    /\ result[c].orders[1].id # orders[1].id
    /\ \E i, j \in 1..result[c].count :
         /\ result[c].orders[i].product_name = "Laptop"
         /\ result[c].orders[j].product_name = "Monitor"

\* C28: of two stored orders of one product, the one whose deduction was
\* applied later (the later to take the row lock, hence the later in the
\* table) never carries an earlier created_at: the listing by created_at
\* shows the orders in the sequence of their allocations.
C28_CreatedAtFollowsLockOrder ==
  \A i, j \in 1..Len(orders) :
    (i < j /\ orders[i].product_id = orders[j].product_id) =>
      orders[i].created_at <= orders[j].created_at

\* C29: whenever placeOrder has returned and released its client, the
\* transaction its BEGIN opened is over (committed on success, rolled back
\* otherwise) and holds no row lock, even when a ROLLBACK statement failed.
C29_LockNeverOutlivesCall ==
  \A c \in Returned :
    released[c] >= 1 => (~txn[c].open /\ c \notin LockHolders(call[c].productId))

\* productId or quantity is missing, not of type number, or <= 0
BadRequest(body) ==
  \E field \in {body.productId, body.quantity} :
    \/ field.type # "number"
    \/ ~IsPositive(field)

\* the request of caller c arrives with this body in this step
Receives(c, body) ==
  \/ ControllerRejects(c, body)
  \/ ControllerCallsService(c, body)
  \/ ControllerCallsServiceConnectThrows(c, body)

\* the status the controller is to answer for each outcome of the service
StatusOfOutcome(res) ==
  IF res.success THEN 201
  ELSE CASE res.code = "PRODUCT_NOT_FOUND" -> 404
         [] res.code = "INSUFFICIENT_STOCK" -> 400
         [] res.code \in {"STOCK_DEDUCTION_FAILED", "INTERNAL_ERROR"} -> 500
         [] OTHER -> 0

\* a request whose productId or quantity is missing, not a number or <= 0 is
\* answered 400 at once, the service not called: no transaction, no lock, no
\* change of state; any other request calls the service, with the two
\* numbers; what the service returns is answered with its statusCode
GuardAndStatus ==
  [][\A c \in Callers :
       /\ \A body \in Bodies :
            Receives(c, body) =>
              IF BadRequest(body)
                THEN /\ pc'[c] = "responded"
                     /\ result'[c].status = 400
                     /\ call'[c] = NoCall
                     /\ UNCHANGED <<stock, orders, orderSeq, clock, txn, lockOrder>>
                ELSE /\ pc'[c] # "responded"
                     /\ call'[c].productId = body.productId.value
                     /\ call'[c].quantity = body.quantity.value
       /\ (pc[c] = "returned" /\ pc'[c] = "responded") =>
            /\ result'[c].status = result[c].statusCode
            /\ result'[c].status = StatusOfOutcome(result[c])
    ]_vars

\* no request is left without an answer
EveryRequestAnswered == [](\A c \in Callers : pc[c] # "unanswered")

\* C30: a request whose productId or quantity is missing, not a number or
\* <= 0 is answered 400 without a call of the service (no lock, transaction
\* or change of state); any other request calls the service once and is
\* answered with the statusCode of the service: 201 on success, 404 for an
\* unknown product, 400 for insufficient stock, 500 for a deduction failure
\* or an internal error.
C30_HttpGuard == GuardAndStatus /\ EveryRequestAnswered

=============================================================================
